---- MODULE Spec2Model ----
(***************************************************************************)
(* Model of the hlampctl IIO driver (hlampctl.c): one device instance, its  *)
(* mutex, the attach-time probe, and the read_raw / write_raw callbacks     *)
(* called by concurrent contexts of the IIO core.                           *)
(***************************************************************************)
EXTENDS Integers, FiniteSets, TLC

(* ------------------------------------------------------------------ *)
(* Bounds of the model                                                 *)
(* ------------------------------------------------------------------ *)

\* number of concurrent callers of read_raw / write_raw on the instance
NumCallers == 2

Callers == 1..NumCallers

(* ------------------------------------------------------------------ *)
(* Program constants                                                   *)
(* ------------------------------------------------------------------ *)

EINVAL == 22
ENODEV == 19
EOPNOTSUPP == 95
ENOMEM == 12
IIO_VAL_INT == 1
IIO_VAL_INT_PLUS_NANO == 3

\* the context that runs hlampctl_probe (callers are 1..NumCallers)
ProbeCtx == 0

\* iio_chan_info_enum values the callbacks are called with; OFFSET stands for
\* every facet the switches do not name
Masks == {"RAW", "SCALE", "SAMP_FREQ", "OFFSET"}

\* channel->channel is an int: the three table entries, an index out of
\* range, and indexes equal to 0 and 2 modulo 256
ChanIdx == {0, 1, 2, 3, 256, 258}

\* int values handed to write_raw (INT_MIN, negative, zero, positive, INT_MAX)
Values == {-2147483647 - 1, -1, 0, 1, 2147483647}

\* negative errno values a bus transaction can return (-ENXIO, -EREMOTEIO)
BusErrors == {-6, -121}

\* negative errno values devm_iio_device_register can return (-ENOMEM, -EBUSY)
RegisterErrors == {-12, -16}

\* raw codes the peripheral's ADC register can hold (12-bit)
AdcCodes == {5, 200, 2048, 4095}

\* raw codes the peripheral's temperature register can hold
TempCodes == {0, 37, 255}

\* contents of the enable register before the driver first writes it
EnableCodes == {0, 254, 255}

\* contents of the caller's *val1 / *val2 cells before a call
PriorContents == {-7777}

(* ------------------------------------------------------------------ *)
(* Pure helpers                                                        *)
(* ------------------------------------------------------------------ *)

\* u8 req_channel = channel->channel
U8(x) == x % 256

\* sign_extend32(value, index) for a u32 value: bit `index` is the sign bit
sign_extend32(value, index) ==
  LET m   == 2 ^ (index + 1)
      low == value % m
  IN  IF low >= m \div 2 THEN low - m ELSE low

\* sub-address hlampctl_read's switch uses for a u8 channel; {} for default
ReadSubAddr(channel) ==
  CASE channel = 0 -> {2}
    [] channel = 1 -> {1}
    [] channel = 2 -> {3}
    [] OTHER       -> {}

\* what a single-byte SMBus read can deliver of a register holding `held`:
\* the result is a u8; of a wider code only eight bits can travel (which
\* eight is the peripheral's choice), or the transaction fails
ByteOf(held) ==
  IF held < 256 THEN {held} ELSE {held % 256, held \div 16}

i2c_smbus_read_byte_data(held, errors) == ByteOf(held) \cup errors

\* value != 0 in place of value > 0
WriteByte_nonzero(value) == IF value # 0 THEN 1 ELSE 0

\* value > 0 ? 1 : 0
WriteByte(value) == IF value > 0 THEN 1 ELSE 0

\* *value stored before the error check
hlampctl_read_value_store_first(channel, readval, old) ==
  IF readval < 0
  THEN [ret |-> -EINVAL, value |-> readval]
  ELSE LET temp == IF channel = 2 THEN readval % 2 ELSE readval
       IN  [ret   |-> 0,
            value |-> IF channel = 0 THEN sign_extend32(temp, 11) ELSE temp]

\* hlampctl_read after the switch: the error check, the channel-2 mask and
\* the channel-0 sign extension; `old` is what *value held before the call
hlampctl_read_value(channel, readval, old) ==
  IF readval < 0
  THEN [ret |-> -EINVAL, value |-> old]
  ELSE LET temp == IF channel = 2 THEN readval % 2 ELSE readval
       IN  [ret   |-> 0,
            value |-> IF channel = 0 THEN sign_extend32(temp, 11) ELSE temp]

\* hlampctl_read_raw, case IIO_CHAN_INFO_RAW: the return after read_channel
read_raw_return(err) == IF err < 0 THEN -EINVAL ELSE IIO_VAL_INT

\* (int)(3300000000/256), the nV per LSB: the division is done in two steps
\* on 3300000 * 1000 so that no intermediate exceeds 32 bits
ScaleNano ==
  (3300000 \div 256) * 1000 + ((3300000 % 256) * 1000) \div 256

\* hlampctl_read_raw, every case but IIO_CHAN_INFO_RAW: no bus access
read_raw_fixed(chan, mask, old1, old2) ==
  CASE mask = "SCALE" /\ chan = 0 ->
         [ret |-> IIO_VAL_INT_PLUS_NANO, val1 |-> 0,
          val2 |-> ScaleNano]
    [] mask = "SCALE" /\ chan # 0 ->
         [ret |-> IIO_VAL_INT, val1 |-> 1, val2 |-> old2]
    [] mask = "SAMP_FREQ" ->
         [ret |-> IIO_VAL_INT, val1 |-> 10, val2 |-> old2]
    [] OTHER ->
         [ret |-> -EINVAL, val1 |-> old1, val2 |-> old2]

\* the channel compared after its truncation to u8
write_raw_accepts_u8(chan, mask) == mask = "RAW" /\ U8(chan) = 2

\* hlampctl_write_raw: the one (channel, facet) pair that reaches write_channel
write_raw_accepts(chan, mask) == mask = "RAW" /\ chan = 2

\* the return of write_channel passed on as it is
write_raw_return_passthrough(err) == err

\* hlampctl_write_raw, case IIO_CHAN_INFO_RAW, channel 2: the return
write_raw_return(err) == IF err < 0 THEN -EINVAL ELSE 0

\* the result of i2c_master_recv not checked
probe_result_unchecked(recv, regerr) ==
  IF regerr < 0
  THEN [ret |-> regerr, registered |-> FALSE, num_channels |-> 3]
  ELSE [ret |-> 0, registered |-> TRUE, num_channels |-> 3]

\* hlampctl_probe after the probe transaction: ret of i2c_master_recv and err
\* of devm_iio_device_register give the return value and whether the device
\* is registered
probe_result(recv, regerr) ==
  IF recv < 0
  THEN [ret |-> -ENODEV, registered |-> FALSE, num_channels |-> 0]
  ELSE IF regerr < 0
       THEN [ret |-> regerr, registered |-> FALSE, num_channels |-> 3]
       ELSE [ret |-> 0, registered |-> TRUE, num_channels |-> 3]

(* ------------------------------------------------------------------ *)
(* State                                                               *)
(* ------------------------------------------------------------------ *)

VARIABLES
  pc,     \* where each context stands: idle, lock, io, bus, unlock, ret, done
  fn,     \* the entry point each context is in: none, read, write, probe
  lock,   \* adc->lock: the set of contexts holding it ({} when free)
  bus,    \* contexts with a transaction in progress on adc->i2c
  reg3,   \* the peripheral's enable register (sub-address 3)
  lastW,  \* history: {v} while reg3 holds the byte of the successful write of v
  th,     \* per caller: arguments, locals and results of the current call
  probe,  \* hlampctl_probe's inputs, locals and return value
  dev     \* indio_dev: registered, num_channels

vars == <<pc, fn, lock, bus, reg3, lastW, th, probe, dev>>

Contexts == Callers \cup {ProbeCtx}

\* a call record at entry of a callback
NewCall(chan, mask, val, old1, old2) ==
  [chan |-> chan, mask |-> mask, val |-> val,
   val1 |-> old1, val2 |-> old2,   \* the caller's output cells
   err  |-> 0,                      \* ret of hlampctl_read / hlampctl_write
   ret  |-> 0,                      \* return value of the callback
   ntx  |-> 0,                      \* history: bus transactions issued
   sub  |-> {},                     \* history: sub-addresses addressed
   held |-> 0,                      \* history: register contents sampled
   rv   |-> 0,                      \* readval / retval of the transaction
   sent |-> {},                     \* history: bytes written to the bus
   seenW |-> {}]                    \* history: lastW when reg3 was sampled

InitWith(enable) ==
  /\ pc = [c \in Contexts |-> "idle"]
  /\ fn = [c \in Contexts |-> IF c = ProbeCtx THEN "probe" ELSE "none"]
  /\ lock = {}
  /\ bus = {}
  /\ reg3 \in enable
  /\ lastW = {}
  /\ \E old \in PriorContents :
       th = [c \in Callers |-> NewCall(0, "RAW", 0, old, old)]
  /\ probe = [functionality |-> FALSE, alloc |-> FALSE, issued |-> FALSE,
              recv |-> 0, regerr |-> 0, ret |-> 0]
  /\ dev = [registered |-> FALSE, num_channels |-> 0]

\* the state after module load, before the device is probed
Init == InitWith(EnableCodes)

(* ------------------------------------------------------------------ *)
(* The mutex                                                           *)
(* ------------------------------------------------------------------ *)

\* a mutex_lock that does not wait for the holder
mutex_lock_nowait(c) ==
  /\ pc[c] = "lock"
  /\ lock' = lock \cup {c}
  /\ pc' = [pc EXCEPT ![c] = "io"]
  /\ UNCHANGED <<fn, bus, reg3, lastW, th, probe, dev>>

\* mutex_lock(&adc->lock): blocks until the mutex is free, then takes it
mutex_lock(c) ==
  /\ pc[c] = "lock"
  /\ lock = {}
  /\ lock' = {c}
  /\ pc' = [pc EXCEPT ![c] = "io"]
  /\ UNCHANGED <<fn, bus, reg3, lastW, th, probe, dev>>

\* an error path that returns before the mutex_unlock
mutex_unlock_on_success(c) ==
  /\ pc[c] = "unlock"
  /\ LET failed == IF c = ProbeCtx THEN probe.recv < 0 ELSE th[c].err < 0
     IN  lock' = IF failed THEN lock ELSE lock \ {c}
  /\ pc' = [pc EXCEPT ![c] = "ret"]
  /\ UNCHANGED <<fn, bus, reg3, lastW, th, probe, dev>>

\* mutex_unlock(&adc->lock): reached on every path out of the locked region
mutex_unlock(c) ==
  /\ pc[c] = "unlock"
  /\ lock' = lock \ {c}
  /\ pc' = [pc EXCEPT ![c] = "ret"]
  /\ UNCHANGED <<fn, bus, reg3, lastW, th, probe, dev>>

(* ------------------------------------------------------------------ *)
(* hlampctl_read_raw                                                   *)
(* ------------------------------------------------------------------ *)

\* entry of hlampctl_read_raw: the RAW facet goes to hlampctl_read_channel
\* and waits for the mutex, every other facet returns at once
hlampctl_read_raw(c, chans, masks) ==
  /\ dev.registered
  /\ pc[c] \in {"idle", "done"}
  /\ \E chan \in chans, mask \in masks, old \in PriorContents :
       LET call == NewCall(chan, mask, 0, old, old)
           r    == read_raw_fixed(chan, mask, old, old)
       IN  IF mask = "RAW"
           THEN /\ th' = [th EXCEPT ![c] = call]
                /\ pc' = [pc EXCEPT ![c] = "lock"]
           ELSE /\ th' = [th EXCEPT ![c] =
                            [call EXCEPT !.ret = r.ret, !.val1 = r.val1,
                                         !.val2 = r.val2]]
                /\ pc' = [pc EXCEPT ![c] = "done"]
  /\ fn' = [fn EXCEPT ![c] = "read"]
  /\ UNCHANGED <<lock, bus, reg3, lastW, probe, dev>>

\* hlampctl_read, the switch: a transaction is started for channel 0, 1 or 2
\* of the u8 req_channel; the default case sets readval = -1 without one
hlampctl_read(c) ==
  /\ pc[c] = "io"
  /\ fn[c] = "read"
  /\ LET channel == U8(th[c].chan)
         sub     == ReadSubAddr(channel)
     IN  IF sub = {}
         THEN LET r == hlampctl_read_value(channel, -1, th[c].val1)
              IN  /\ th' = [th EXCEPT ![c].rv = -1, ![c].err = r.ret,
                                      ![c].val1 = r.value]
                  /\ pc' = [pc EXCEPT ![c] = "unlock"]
                  /\ bus' = bus
         ELSE /\ th' = [th EXCEPT ![c].ntx = @ + 1, ![c].sub = @ \cup sub]
              /\ pc' = [pc EXCEPT ![c] = "bus"]
              /\ bus' = bus \cup {c}
  /\ UNCHANGED <<fn, lock, reg3, lastW, probe, dev>>

\* what the register at a sub-address can hold when it is sampled
RegContents(sub) ==
  IF 2 \in sub THEN AdcCodes
  ELSE IF 1 \in sub THEN TempCodes
  ELSE {reg3}

\* a failed read transaction issued a second time
read_complete_retry(c, errors) ==
  /\ pc[c] = "bus"
  /\ fn[c] = "read"
  /\ \E held \in RegContents(th[c].sub) :
       \E readval \in i2c_smbus_read_byte_data(held, errors) :
         LET r == hlampctl_read_value(U8(th[c].chan), readval, th[c].val1)
             again == readval < 0 /\ th[c].ntx < 2
         IN  /\ th' = [th EXCEPT ![c].held = held, ![c].rv = readval,
                         ![c].seenW = IF 3 \in th[c].sub THEN lastW ELSE {},
                         ![c].err = r.ret, ![c].val1 = r.value,
                         ![c].ntx = IF again THEN @ + 1 ELSE @]
             /\ pc' = [pc EXCEPT ![c] = IF again THEN "bus" ELSE "unlock"]
             /\ bus' = IF again THEN bus ELSE bus \ {c}
  /\ UNCHANGED <<fn, lock, reg3, lastW, probe, dev>>

\* i2c_smbus_read_byte_data returns; hlampctl_read checks, masks, sign-extends
\* and stores through *value
read_complete(c, errors) ==
  /\ pc[c] = "bus"
  /\ fn[c] = "read"
  /\ \E held \in RegContents(th[c].sub) :
       \E readval \in i2c_smbus_read_byte_data(held, errors) :
         LET r == hlampctl_read_value(U8(th[c].chan), readval, th[c].val1)
         IN  th' = [th EXCEPT ![c].held = held, ![c].rv = readval,
                              ![c].seenW = IF 3 \in th[c].sub THEN lastW ELSE {},
                              ![c].err = r.ret, ![c].val1 = r.value]
  /\ pc' = [pc EXCEPT ![c] = "unlock"]
  /\ bus' = bus \ {c}
  /\ UNCHANGED <<fn, lock, reg3, lastW, probe, dev>>

(* ------------------------------------------------------------------ *)
(* hlampctl_write_raw                                                  *)
(* ------------------------------------------------------------------ *)

\* entry of hlampctl_write_raw: only RAW on channel 2 goes to
\* hlampctl_write_channel; everything else returns -EINVAL at once
hlampctl_write_raw(c, chans, masks, vals) ==
  /\ dev.registered
  /\ pc[c] \in {"idle", "done"}
  /\ \E chan \in chans, mask \in masks, val \in vals, old \in PriorContents :
       LET call == NewCall(chan, mask, val, old, old)
       IN  IF write_raw_accepts(chan, mask)
           THEN /\ th' = [th EXCEPT ![c] = call]
                /\ pc' = [pc EXCEPT ![c] = "lock"]
           ELSE /\ th' = [th EXCEPT ![c] = [call EXCEPT !.ret = -EINVAL]]
                /\ pc' = [pc EXCEPT ![c] = "done"]
  /\ fn' = [fn EXCEPT ![c] = "write"]
  /\ UNCHANGED <<lock, bus, reg3, lastW, probe, dev>>

\* hlampctl_write: channel 2 starts the write of the coerced byte to
\* sub-address 3, any other u8 channel returns -EINVAL
hlampctl_write(c) ==
  /\ pc[c] = "io"
  /\ fn[c] = "write"
  /\ IF U8(th[c].chan) = 2
     THEN /\ th' = [th EXCEPT ![c].ntx = @ + 1, ![c].sub = @ \cup {3},
                              ![c].sent = @ \cup {WriteByte(th[c].val)}]
          /\ pc' = [pc EXCEPT ![c] = "bus"]
          /\ bus' = bus \cup {c}
     ELSE /\ th' = [th EXCEPT ![c].err = -EINVAL]
          /\ pc' = [pc EXCEPT ![c] = "unlock"]
          /\ bus' = bus
  /\ UNCHANGED <<fn, lock, reg3, lastW, probe, dev>>

\* i2c_smbus_write_byte_data returns 0 with the byte stored, or a negative
\* errno with the register either untouched or written
write_complete(c, errors) ==
  /\ pc[c] = "bus"
  /\ fn[c] = "write"
  /\ \E retval \in {0} \cup errors :
       /\ th' = [th EXCEPT ![c].rv = retval, ![c].err = retval]
       /\ IF retval = 0
          THEN /\ reg3' = WriteByte(th[c].val)
               /\ lastW' = {th[c].val}
          ELSE /\ reg3' \in {reg3, WriteByte(th[c].val)}
               /\ lastW' = {}
  /\ pc' = [pc EXCEPT ![c] = "unlock"]
  /\ bus' = bus \ {c}
  /\ UNCHANGED <<fn, lock, probe, dev>>

\* return of hlampctl_read_channel / hlampctl_write_channel and of the
\* callback that called it
callback_return(c) ==
  /\ pc[c] = "ret"
  /\ fn[c] \in {"read", "write"}
  /\ th' = [th EXCEPT ![c].ret = IF fn[c] = "read"
                                 THEN read_raw_return(th[c].err)
                                 ELSE write_raw_return(th[c].err)]
  /\ pc' = [pc EXCEPT ![c] = "done"]
  /\ UNCHANGED <<fn, lock, bus, reg3, lastW, probe, dev>>

(* ------------------------------------------------------------------ *)
(* hlampctl_probe                                                      *)
(* ------------------------------------------------------------------ *)

\* entry of hlampctl_probe: the functionality check, the allocation,
\* adc->i2c = client and mutex_init
probe_entry ==
  /\ pc[ProbeCtx] = "idle"
  /\ \E functionality \in BOOLEAN, alloc \in BOOLEAN :
       /\ probe' = [probe EXCEPT !.functionality = functionality,
                                 !.alloc = alloc,
                                 !.ret = IF ~functionality THEN -EOPNOTSUPP
                                         ELSE IF ~alloc THEN -ENOMEM ELSE 0]
       /\ pc' = [pc EXCEPT ![ProbeCtx] =
                   IF functionality /\ alloc THEN "lock" ELSE "done"]
       /\ lock' = IF functionality /\ alloc THEN {} ELSE lock
  /\ UNCHANGED <<fn, bus, reg3, lastW, th, dev>>

\* i2c_master_recv(adc->i2c, &dummy, 1) is started
probe_recv ==
  /\ pc[ProbeCtx] = "io"
  /\ probe' = [probe EXCEPT !.issued = TRUE]
  /\ pc' = [pc EXCEPT ![ProbeCtx] = "bus"]
  /\ bus' = bus \cup {ProbeCtx}
  /\ UNCHANGED <<fn, lock, reg3, lastW, th, dev>>

\* i2c_master_recv returns the byte count or a negative errno
probe_recv_complete(errors) ==
  /\ pc[ProbeCtx] = "bus"
  /\ \E ret \in {1} \cup errors : probe' = [probe EXCEPT !.recv = ret]
  /\ pc' = [pc EXCEPT ![ProbeCtx] = "unlock"]
  /\ bus' = bus \ {ProbeCtx}
  /\ UNCHANGED <<fn, lock, reg3, lastW, th, dev>>

\* the rest of hlampctl_probe: the check of ret, the channel table and
\* devm_iio_device_register
probe_finish ==
  /\ pc[ProbeCtx] = "ret"
  /\ \E regerr \in {0} \cup RegisterErrors :
       LET r == probe_result(probe.recv, regerr)
       IN  /\ probe' = [probe EXCEPT !.ret = r.ret,
                          !.regerr = IF probe.recv < 0 THEN 0 ELSE regerr]
           /\ dev' = [registered |-> r.registered,
                      num_channels |-> r.num_channels]
  /\ pc' = [pc EXCEPT ![ProbeCtx] = "done"]
  /\ UNCHANGED <<fn, lock, bus, reg3, lastW, th>>

(* ------------------------------------------------------------------ *)
(* Specifications                                                      *)
(* ------------------------------------------------------------------ *)

\* inputs of the callers in the concurrent specification: the facet that
\* takes the mutex, with the channel that reaches the bus for reads and
\* writes and one that does not
ConcChanIdx == {2, 3}
ConcMasks == {"RAW"}
ConcValues == {1}
ConcBusErrors == {-121}
ConcEnableCodes == {254}

\* the caller of the sequential specification
OneCaller == {1}

\* NumCallers concurrent callers
Next ==
  \/ probe_entry
  \/ \E c \in Contexts : mutex_lock(c)
  \/ \E c \in Contexts : mutex_unlock(c)
  \/ probe_recv
  \/ probe_recv_complete(ConcBusErrors)
  \/ probe_finish
  \/ \E c \in Callers : hlampctl_read_raw(c, ConcChanIdx, ConcMasks)
  \/ \E c \in Callers : hlampctl_read(c)
  \/ \E c \in Callers : read_complete(c, ConcBusErrors)
  \/ \E c \in Callers : hlampctl_write_raw(c, ConcChanIdx, ConcMasks, ConcValues)
  \/ \E c \in Callers : hlampctl_write(c)
  \/ \E c \in Callers : write_complete(c, ConcBusErrors)
  \/ \E c \in Callers : callback_return(c)

ConcInit == InitWith(ConcEnableCodes)

Spec == ConcInit /\ [][Next]_vars

\* one caller, every input
DataNext ==
  \/ probe_entry
  \/ \E c \in Contexts : mutex_lock(c)
  \/ \E c \in Contexts : mutex_unlock(c)
  \/ probe_recv
  \/ probe_recv_complete(BusErrors)
  \/ probe_finish
  \/ \E c \in OneCaller : hlampctl_read_raw(c, ChanIdx, Masks)
  \/ \E c \in OneCaller : hlampctl_read(c)
  \/ \E c \in OneCaller : read_complete(c, BusErrors)
  \/ \E c \in OneCaller : hlampctl_write_raw(c, ChanIdx, Masks, Values)
  \/ \E c \in OneCaller : hlampctl_write(c)
  \/ \E c \in OneCaller : write_complete(c, BusErrors)
  \/ \E c \in OneCaller : callback_return(c)

DataSpec == Init /\ [][DataNext]_vars

\* the steps of a caller inside a callback, after it has the mutex
CallerRun(c) ==
  \/ hlampctl_read(c)
  \/ read_complete(c, ConcBusErrors)
  \/ hlampctl_write(c)
  \/ write_complete(c, ConcBusErrors)
  \/ mutex_unlock(c)
  \/ callback_return(c)

\* the steps of hlampctl_probe after it has the mutex
ProbeRun ==
  \/ probe_recv
  \/ probe_recv_complete(ConcBusErrors)
  \/ mutex_unlock(ProbeCtx)
  \/ probe_finish

\* the scheduling the kernel gives: a context inside a callback or the probe
\* keeps running, a bus transaction terminates, and a mutex waiter is not
\* passed over for ever (the mutex hands the lock off to a starved waiter)
Fairness ==
  /\ \A c \in Contexts : SF_vars(mutex_lock(c))
  /\ \A c \in Callers : WF_vars(CallerRun(c))
  /\ WF_vars(ProbeRun)

FairSpec == Spec /\ Fairness

(* ------------------------------------------------------------------ *)
(* Claims                                                              *)
(* ------------------------------------------------------------------ *)

\* C1: every bus transaction of the instance is issued by a context that
\* holds the instance's lock, and at most one transaction is in progress.
C1_BusUnderLock ==
  /\ \A c \in bus : c \in lock
  /\ Cardinality(bus) <= 1

\* C1 witness: a caller's transaction is in progress while another caller
\* waits for the mutex.
C1_Witness ==
  \E c \in Callers, d \in Callers :
    c # d /\ c \in bus /\ pc[d] = "lock"

\* C10: a context that has left the locked region of read, write or the
\* probe does not hold the lock, whatever the outcome, and every context
\* waiting for the lock eventually holds it.
C10_LockReleased ==
  /\ [](\A c \in Contexts : pc[c] \in {"ret", "done"} => c \notin lock)
  /\ \A c \in Contexts : (pc[c] = "lock") ~> (c \in lock)

\* C10 witness: a caller has returned from a failed bus transaction, the
\* lock is held by another caller.
C10_Witness ==
  \E c \in Callers, d \in Callers :
    /\ c # d
    /\ pc[c] = "done" /\ th[c].ntx = 1 /\ th[c].err < 0
    /\ d \in lock

\* a caller has returned from hlampctl_read_raw / hlampctl_write_raw
ReadDone(c) == pc[c] = "done" /\ fn[c] = "read"
WriteDone(c) == pc[c] = "done" /\ fn[c] = "write"

\* hlampctl_read_raw returned success from the RAW facet of channel n
RawReadOk(c, n) ==
  /\ ReadDone(c)
  /\ th[c].mask = "RAW"
  /\ th[c].chan = n
  /\ th[c].ret = IIO_VAL_INT

\* C2 as claimed: a successful channel-0 read returns sign_extend12 of the
\* raw code the peripheral's ADC register held, for every code in 0..4095.
C2_Original ==
  \A c \in Callers :
    RawReadOk(c, 0) => th[c].val1 = sign_extend32(th[c].held, 11)

\* C3: the byte written to sub-address 3 is 0 or 1, and a successful channel-2
\* read of the register holding the byte of a successful write of v returns
\* 1 when v > 0 and 0 when v <= 0.
C3_WriteThenRead ==
  \A c \in Callers :
    /\ th[c].sent \subseteq {0, 1}
    /\ RawReadOk(c, 2) =>
         \A v \in th[c].seenW : th[c].val1 = IF v > 0 THEN 1 ELSE 0

\* C3 witness: a channel-2 read returned 0 after the write of -1.
C3_Witness ==
  \E c \in Callers :
    RawReadOk(c, 2) /\ th[c].seenW = {-1} /\ th[c].val1 = 0

\* C4 as claimed: attach fails with NotFound when the probe transaction
\* returns an error and succeeds with 3 registered channels in every other
\* case; no device is registered when it fails.
C4_Original ==
  pc[ProbeCtx] = "done" =>
    LET busFailed == probe.issued /\ probe.recv < 0
    IN  /\ busFailed => probe.ret = -ENODEV
        /\ ~busFailed =>
             probe.ret = 0 /\ dev.registered /\ dev.num_channels = 3
        /\ probe.ret # 0 => ~dev.registered

\* C4 amended: attach fails with NotFound when the probe transaction returns
\* an error; with NotSupported, without a transaction, when the functionality
\* check fails; with ENOMEM, without a transaction, when the allocation
\* fails; with the registration's error when devm_iio_device_register fails;
\* in every other case it succeeds and leaves a registered device with
\* exactly 3 channels. A device is registered only by a successful attach.
C4_Amended ==
  /\ dev.registered => pc[ProbeCtx] = "done" /\ probe.ret = 0
  /\ pc[ProbeCtx] = "done" =>
       /\ probe.issued /\ probe.recv < 0 => probe.ret = -ENODEV
       /\ ~probe.functionality => probe.ret = -EOPNOTSUPP /\ ~probe.issued
       /\ probe.functionality /\ ~probe.alloc =>
            probe.ret = -ENOMEM /\ ~probe.issued
       /\ probe.issued /\ probe.recv >= 0 /\ probe.regerr < 0 =>
            probe.ret = probe.regerr
       /\ probe.issued /\ probe.recv >= 0 /\ probe.regerr = 0 =>
            probe.ret = 0 /\ dev.registered /\ dev.num_channels = 3
       /\ probe.ret # 0 => ~dev.registered

\* C4 witness: the probe transaction failed and attach returned -ENODEV.
C4_Witness ==
  /\ pc[ProbeCtx] = "done"
  /\ probe.issued
  /\ probe.recv < 0
  /\ probe.ret = -ENODEV

\* C5: write_raw succeeds only for RAW on channel 2; for every other
\* (channel, facet, value) it returns -EINVAL without waiting for or holding
\* the mutex and without a bus transaction.
C5_WriteRejected ==
  \A c \in Callers :
    fn[c] = "write" =>
      /\ WriteDone(c) /\ th[c].ret = 0 =>
           th[c].mask = "RAW" /\ th[c].chan = 2
      /\ ~(th[c].mask = "RAW" /\ th[c].chan = 2) =>
           /\ pc[c] = "done"
           /\ th[c].ret = -EINVAL
           /\ th[c].ntx = 0
           /\ c \notin lock
           /\ c \notin bus

\* C5 witness: a RAW write to channel index 258 was rejected.
C5_Witness ==
  \E c \in Callers :
    /\ WriteDone(c)
    /\ th[c].mask = "RAW"
    /\ th[c].chan = 258
    /\ th[c].ret = -EINVAL

C7_NoPartialResult ==
  \A c \in Callers :
    /\ fn[c] = "read" /\ pc[c] \in {"unlock", "ret", "done"} /\ th[c].err < 0 =>
         th[c].val1 \in PriorContents /\ th[c].val2 \in PriorContents
    /\ ReadDone(c) /\ th[c].ret < 0 =>
         th[c].val1 \in PriorContents /\ th[c].val2 \in PriorContents
    /\ RawReadOk(c, 2) => th[c].val1 \in {0, 1}
    /\ RawReadOk(c, 1) => th[c].val1 \in 0..255

\* C7 witness: a channel-2 read whose bus transaction failed has returned.
C7_Witness ==
  \E c \in Callers :
    /\ ReadDone(c)
    /\ th[c].mask = "RAW"
    /\ th[c].chan = 2
    /\ th[c].ntx = 1
    /\ th[c].rv < 0
    /\ th[c].ret < 0

\* C8: every failure of read_raw and write_raw returns -EINVAL; the negative
\* result of a bus transaction is never the value returned.
C8_UniformError ==
  \A c \in Callers :
    (ReadDone(c) \/ WriteDone(c)) /\ th[c].ret < 0 =>
      /\ th[c].ret = -EINVAL
      /\ th[c].ntx > 0 => th[c].ret # th[c].rv

\* C8 witness: a channel-2 write whose bus transaction returned -EREMOTEIO
\* has returned -EINVAL.
C8_Witness ==
  \E c \in Callers :
    /\ WriteDone(c)
    /\ th[c].ntx = 1
    /\ th[c].rv = -121
    /\ th[c].ret = -EINVAL

\* the value hlampctl_read derives from the byte a transaction delivered
Converted(n, byte) ==
  CASE n = 0 -> sign_extend32(byte, 11)
    [] n = 1 -> byte
    [] n = 2 -> byte % 2

\* C9: a call never issues more than one bus transaction; a RAW read of
\* channel 0, 1 or 2 and a RAW write of channel 2 have issued exactly one
\* when they return, failed or not; SCALE and SAMP_FREQ reads issue none;
\* the value a RAW read returns is derived from the byte its own transaction
\* delivered.
C9_OneTransaction ==
  \A c \in Callers :
    /\ th[c].ntx <= 1
    /\ ReadDone(c) /\ th[c].mask = "RAW" /\ th[c].chan \in {0, 1, 2} =>
         th[c].ntx = 1
    /\ ReadDone(c) /\ th[c].mask \in {"SCALE", "SAMP_FREQ"} => th[c].ntx = 0
    /\ WriteDone(c) /\ th[c].mask = "RAW" /\ th[c].chan = 2 => th[c].ntx = 1
    /\ \A n \in {0, 1, 2} :
         RawReadOk(c, n) => th[c].val1 = Converted(n, th[c].rv)

\* C9 witness: a channel-1 read whose only transaction failed has returned.
C9_Witness ==
  \E c \in Callers :
    /\ ReadDone(c)
    /\ th[c].mask = "RAW"
    /\ th[c].chan = 1
    /\ th[c].rv < 0
    /\ th[c].ntx = 1
    /\ th[c].ret = -EINVAL

====
